---------------------------- MODULE Spec2Model ----------------------------
(***************************************************************************)
(* A model of script.js: the circle physics (PhysicsBody.update,           *)
(* PhysicsBody.checkCollision), the goal sensors, the AI controller, the   *)
(* input handlers and the MENU / PLAYING / GAMEOVER state machine driven   *)
(* by updateGame.                                                          *)
(*                                                                         *)
(* Numbers.  The program computes in IEEE doubles.  The model computes in  *)
(* fixed point: a length or a velocity is an integer number of hundredths  *)
(* (Unit = 100 per pixel), a product or quotient is rounded to the nearest *)
(* hundredth, and the one non-finite value the program can produce, NaN    *)
(* (0/0 in checkCollision), is the distinguished value NaN, which every    *)
(* arithmetic operator propagates and every comparison rejects, as IEEE    *)
(* arithmetic does.                                                        *)
(***************************************************************************)
EXTENDS Integers, FiniteSets, Sequences, TLC

(***************************************************************************)
(* 1) Global configuration (script.js, section 1)                          *)
(***************************************************************************)
Unit == 10 * 10                 \* fixed-point units per pixel
NormalUnit == 100 * 100         \* fixed-point units of a unit-normal component

GAME_WIDTH == 1280
GAME_HEIGHT == 720
GRAVITY == 35                   \* 0.35, in hundredths
FRICTION == 99                  \* 0.99, in hundredths
BALL_RESTITUTION == 88          \* 0.88, in hundredths
PLAYER_RESTITUTION == 80        \* 0.8, in hundredths
PLAYER_SPEED == 5
PLAYER_JUMP == 12
MAX_GOALS == 3
RestThreshold == 90             \* 0.9, in hundredths (Math.abs(velocity.y) < 0.9)
PlayerRadius == 50
BallRadius == 30
PlayerMass == 12                \* 1.2, in tenths
BallMass == 6                   \* 0.6, in tenths
AiJumpCooldown == 60
AiChaseDistance == 20

MENU == "MENU"
PLAYING == "PLAYING"
GAMEOVER == "GAMEOVER"
GAME_STATE == {MENU, PLAYING, GAMEOVER}

ONE_PLAYER == "ONE_PLAYER"
TWO_PLAYER == "TWO_PLAYER"
PLAY_MODE == {ONE_PLAYER, TWO_PLAYER}

W == GAME_WIDTH * Unit
H == GAME_HEIGHT * Unit

(***************************************************************************)
(* 2) Arithmetic: fixed point with NaN                                     *)
(***************************************************************************)
NaN == 0 - 1000000000

Abs(a) == IF a < 0 THEN -a ELSE a

\* a / b for b > 0, rounded to the nearest integer (halves away from zero)
RDiv(a, b) == IF a >= 0 THEN (2 * a + b) \div (2 * b)
                        ELSE -((2 * (-a) + b) \div (2 * b))

FAdd(a, b) == IF a = NaN \/ b = NaN THEN NaN ELSE a + b
FSub(a, b) == IF a = NaN \/ b = NaN THEN NaN ELSE a - b
FNeg(a) == IF a = NaN THEN NaN ELSE -a
FAbs(a) == IF a = NaN THEN NaN ELSE Abs(a)
\* a * (num / den), den > 0
FScale(a, num, den) == IF a = NaN \/ num = NaN THEN NaN ELSE RDiv(a * num, den)
\* a / b in units of `one`; 0 / 0 is NaN (the only division by zero the program makes
\* is dx / dist with dist = 0, where dx = 0 too)
FDiv(a, b, one) == IF a = NaN \/ b = NaN THEN NaN
                   ELSE IF b = 0 THEN NaN
                   ELSE IF b > 0 THEN RDiv(a * one, b)
                   ELSE RDiv((-a) * one, -b)
FLt(a, b) == a # NaN /\ b # NaN /\ a < b
FGt(a, b) == a # NaN /\ b # NaN /\ a > b

RECURSIVE SqrtFrom(_, _)
\* Newton's iteration downwards from a guess g >= floor(sqrt(n))
SqrtFrom(n, g) == LET h == (g + n \div g) \div 2
                  IN  IF h >= g THEN g ELSE SqrtFrom(n, h)
\* floor(sqrt(n)) for n >= 0
ISqrt(n) == IF n < 2 THEN n ELSE SqrtFrom(n, n \div 2)
\* Math.sqrt rounded to the nearest integer
RSqrt(n) == LET s == ISqrt(n)
            IN  IF n - s * s > s THEN s + 1 ELSE s

(***************************************************************************)
(* 3) Classes (script.js, section 3)                                       *)
(***************************************************************************)
\* new PhysicsBody(x, y, radius, ...) as specialised by Player / Ball: x, y and
\* radius in pixels
NewBody(x, y, radius, mass, restitution) ==
    [x |-> x * Unit, y |-> y * Unit, vx |-> 0, vy |-> 0,
     radius |-> radius * Unit, mass |-> mass, isOnGround |-> FALSE,
     restitution |-> restitution]

NewPlayer(x, y, radius) == NewBody(x, y, radius, PlayerMass, PLAYER_RESTITUTION)

NewBall(x, y, radius) == NewBody(x, y, radius, BallMass, BALL_RESTITUTION)

\* PhysicsBody.applyGravity
ApplyGravity(b) == [b EXCEPT !.vy = FAdd(b.vy, GRAVITY)]

\* PhysicsBody.update, its three parts in the order the code runs them
Integrate(b) ==
    LET vx1 == FScale(b.vx, FRICTION, 100)
    IN  [b EXCEPT !.vx = vx1, !.x = FAdd(b.x, vx1), !.y = FAdd(b.y, b.vy)]

\* the ground collision without the resting threshold
GroundCollisionNoRest(b) ==
    IF FGt(FAdd(b.y, b.radius), H)
    THEN [b EXCEPT !.y = H - b.radius, !.vy = FScale(b.vy, -b.restitution, 100)]
    ELSE [b EXCEPT !.isOnGround = FALSE]

\* the ground collision without `this.position.y = GAME_HEIGHT - this.radius`
GroundCollisionKeepsY(b) ==
    IF FGt(FAdd(b.y, b.radius), H)
    THEN LET vy1 == FScale(b.vy, -b.restitution, 100)
         IN  IF FLt(FAbs(vy1), RestThreshold)
             THEN [b EXCEPT !.vy = 0, !.isOnGround = TRUE]
             ELSE [b EXCEPT !.vy = vy1]
    ELSE [b EXCEPT !.isOnGround = FALSE]

GroundCollision(b) ==
    IF FGt(FAdd(b.y, b.radius), H)
    THEN LET vy1 == FScale(b.vy, -b.restitution, 100)
         IN  IF FLt(FAbs(vy1), RestThreshold)
             THEN [b EXCEPT !.y = H - b.radius, !.vy = 0, !.isOnGround = TRUE]
             ELSE [b EXCEPT !.y = H - b.radius, !.vy = vy1]
    ELSE [b EXCEPT !.isOnGround = FALSE]

LeftWallCollision(b) ==
    IF FLt(FSub(b.x, b.radius), 0)
    THEN [b EXCEPT !.x = b.radius, !.vx = FScale(b.vx, -b.restitution, 100)]
    ELSE b

\* the right wall clamping the centre, not the edge, to GAME_WIDTH
RightWallClampsCentre(b) ==
    IF FGt(FAdd(b.x, b.radius), W)
    THEN [b EXCEPT !.x = W, !.vx = FScale(b.vx, -b.restitution, 100)]
    ELSE b

RightWallCollision(b) ==
    IF FGt(FAdd(b.x, b.radius), W)
    THEN [b EXCEPT !.x = W - b.radius, !.vx = FScale(b.vx, -b.restitution, 100)]
    ELSE b

Update(b) == RightWallCollision(LeftWallCollision(GroundCollision(Integrate(b))))

\* PhysicsBody.checkCollision, its parts in the order the code runs them.
\* dist is only computed when |dx| and |dy| are both below minDist (otherwise
\* dist >= minDist and the call changes nothing), which keeps dx*dx + dy*dy small.
Overlapping(a, b) ==
    LET dx == FSub(b.x, a.x)
        dy == FSub(b.y, a.y)
        minDist == a.radius + b.radius
    IN  /\ FLt(FAbs(dx), minDist)
        /\ FLt(FAbs(dy), minDist)
        /\ RSqrt(dx * dx + dy * dy) < minDist

\* dist, and the normal <<nx, ny>> in NormalUnit, of an overlapping pair
Distance(a, b) == RSqrt((b.x - a.x) * (b.x - a.x) + (b.y - a.y) * (b.y - a.y))

Normal(a, b) == << FDiv(b.x - a.x, Distance(a, b), NormalUnit),
                   FDiv(b.y - a.y, Distance(a, b), NormalUnit) >>

\* "separate bodies": each moves by overlap = (minDist - dist) / 2 along the normal
SeparateBodies(a, b) ==
    LET overlap2 == a.radius + b.radius - Distance(a, b)
        n == Normal(a, b)
        sx == FScale(n[1], overlap2, 2 * NormalUnit)
        sy == FScale(n[2], overlap2, 2 * NormalUnit)
    IN  << [a EXCEPT !.x = FSub(a.x, sx), !.y = FSub(a.y, sy)],
           [b EXCEPT !.x = FAdd(b.x, sx), !.y = FAdd(b.y, sy)] >>

\* "relative velocity": velAlongNormal, given the normal n
VelAlongNormal(a, b, n) ==
    LET rvx == FSub(b.vx, a.vx)
        rvy == FSub(b.vy, a.vy)
    IN  IF n[1] = NaN \/ n[2] = NaN \/ rvx = NaN \/ rvy = NaN THEN NaN
        ELSE RDiv(rvx * n[1] + rvy * n[2], NormalUnit)

\* the test of velAlongNormal with its comparison inverted
SeparatingInverted(velAlongNormal) == FLt(velAlongNormal, 0)

\* if (velAlongNormal > 0) return;
Separating(velAlongNormal) == FGt(velAlongNormal, 0)

\* "restitution": the impulse along n applied to both velocities.  impulseMag is
\* -(1 + (ea + eb)/2) * velAlongNormal / (1/ma + 1/mb), in hundredths of velocity
\* times whole units of mass
ApplyImpulse(a, b, n, velAlongNormal) ==
    LET impulseMag == FScale(FNeg(velAlongNormal),
                             (200 + a.restitution + b.restitution) * a.mass * b.mass,
                             2000 * (a.mass + b.mass))
        impulseX == FScale(impulseMag, n[1], NormalUnit)
        impulseY == FScale(impulseMag, n[2], NormalUnit)
    IN  << [a EXCEPT !.vx = FSub(a.vx, FScale(impulseX, 10, a.mass)),
                     !.vy = FSub(a.vy, FScale(impulseY, 10, a.mass))],
           [b EXCEPT !.vx = FAdd(b.vx, FScale(impulseX, 10, b.mass)),
                     !.vy = FAdd(b.vy, FScale(impulseY, 10, b.mass))] >>

\* <<this, other>> after this.checkCollision(other)
CheckCollision(a, b) ==
    IF ~Overlapping(a, b) THEN <<a, b>>
    ELSE LET n == Normal(a, b)
             moved == SeparateBodies(a, b)
             velAlongNormal == VelAlongNormal(a, b, n)
         IN  IF Separating(velAlongNormal) THEN moved
             ELSE ApplyImpulse(moved[1], moved[2], n, velAlongNormal)

\* Player.moveLeft / moveRight / jump
MoveLeft(p) == [p EXCEPT !.vx = -(PLAYER_SPEED * Unit)]
MoveRight(p) == [p EXCEPT !.vx = PLAYER_SPEED * Unit]
Jump(p) == IF p.isOnGround
           THEN [p EXCEPT !.vy = -(PLAYER_JUMP * Unit), !.isOnGround = FALSE]
           ELSE p

\* new Goal(x, y, width, height, isLeftGoal), in pixels
NewGoal(x, y, width, height, isLeftGoal) ==
    [x |-> x * Unit, y |-> y * Unit, width |-> width * Unit,
     height |-> height * Unit, isLeftGoal |-> isLeftGoal]

\* checkGoal asking for the whole ball to be past the goal's inner edge
CheckGoalWholeBall(g, b) ==
    IF g.isLeftGoal
    THEN /\ FLt(FAdd(b.x, b.radius), g.x + g.width)
         /\ FGt(FAdd(b.y, b.radius), g.y)
         /\ FLt(FSub(b.y, b.radius), g.y + g.height)
    ELSE /\ FGt(FSub(b.x, b.radius), g.x)
         /\ FGt(FAdd(b.y, b.radius), g.y)
         /\ FLt(FSub(b.y, b.radius), g.y + g.height)

\* Goal.checkGoal
CheckGoal(g, b) ==
    IF g.isLeftGoal
    THEN /\ FLt(FSub(b.x, b.radius), g.x + g.width)
         /\ FGt(FAdd(b.y, b.radius), g.y)
         /\ FLt(FSub(b.y, b.radius), g.y + g.height)
    ELSE /\ FGt(FAdd(b.x, b.radius), g.x)
         /\ FGt(FAdd(b.y, b.radius), g.y)
         /\ FLt(FSub(b.y, b.radius), g.y + g.height)

\* AIController: null, or a controller with its jumpCooldown (its aiPlayer and
\* ball are always the player2 and ball created with it)
NoController == [present |-> FALSE, jumpCooldown |-> 0]
NewAIController == [present |-> TRUE, jumpCooldown |-> 0]

\* AIController.update: the player it steers and the controller, afterwards.
\* random is the outcome of Math.random() < 0.01.
AIMove(p, b) ==
    LET dx == FSub(b.x, p.x)
    IN  IF FGt(FAbs(dx), AiChaseDistance * Unit)
        THEN IF FLt(dx, 0) THEN MoveLeft(p) ELSE MoveRight(p)
        ELSE p

AIWantsJump(p, b, random) == FLt(FSub(b.y, p.y), -(AiChaseDistance * Unit)) \/ random

AIUpdate(ai, p, b, random) ==
    LET moved == AIMove(p, b)
    IN  IF ai.jumpCooldown <= 0
        THEN IF AIWantsJump(moved, b, random)
             THEN [player |-> Jump(moved),
                   ai |-> [ai EXCEPT !.jumpCooldown = AiJumpCooldown]]
             ELSE [player |-> moved, ai |-> ai]
        ELSE [player |-> moved,
              ai |-> [ai EXCEPT !.jumpCooldown = ai.jumpCooldown - 1]]

(***************************************************************************)
(* 4) State (script.js, section 1) and the bounds of the exploration       *)
(***************************************************************************)
VARIABLES
    currentGameState,   \* GAME_STATE
    currentPlayMode,    \* PLAY_MODE
    scorePlayer1, scorePlayer2,
    player1, player2, ball,
    keys,               \* the control-input record
    aiController,
    ticks,              \* ticks run while PLAYING (bounded by MaxTicks)
    keyChanges,         \* changes made to keys so far (bounded by MaxKeyChanges)
    randomJumps,        \* ticks in which Math.random() < 0.01 held (bounded)
    last                \* the event handled last, and what it saw

body == <<player1, player2, ball>>
score == <<scorePlayer1, scorePlayer2>>
game == <<currentGameState, scorePlayer1, scorePlayer2, player1, player2, ball>>
vars == <<currentGameState, currentPlayMode, scorePlayer1, scorePlayer2, player1,
          player2, ball, keys, aiController, ticks, keyChanges, randomJumps, last>>

MaxTicks == 500
MaxKeyChanges == 2
MaxRandomJumps == 1
\* input events are explored while not PLAYING and up to this tick of play
InputWindow == 0

ControlKeys == {"p1_left", "p1_right", "p1_jump", "p2_left", "p2_right", "p2_jump"}
NoKeys == [k \in ControlKeys |-> FALSE]

\* e.key of a keydown / keyup event, up to the keys the handlers tell apart
\* ("A" as "a", " " as "Enter"; "other" is any key no handler names)
KeyNames == {"a", "d", "w", "ArrowLeft", "ArrowRight", "ArrowUp", "Enter", "1", "2",
             "other"}
ControlOf(key) == CASE key = "a" -> "p1_left"
                    [] key = "d" -> "p1_right"
                    [] key = "w" -> "p1_jump"
                    [] key = "ArrowLeft" -> "p2_left"
                    [] key = "ArrowRight" -> "p2_right"
                    [] key = "ArrowUp" -> "p2_jump"
                    [] OTHER -> "none"

(***************************************************************************)
(* 5) Game logic and states (script.js, section 5)                         *)
(***************************************************************************)
SpawnPlayer1 == NewPlayer(GAME_WIDTH \div 4, GAME_HEIGHT - 100, PlayerRadius)
SpawnPlayer2 == NewPlayer((3 * GAME_WIDTH) \div 4, GAME_HEIGHT - 100, PlayerRadius)
SpawnBall == NewBall(GAME_WIDTH \div 2, GAME_HEIGHT \div 2, BallRadius)
LeftGoal == NewGoal(0, GAME_HEIGHT - 200, 20, 200, TRUE)
RightGoal == NewGoal(GAME_WIDTH - 20, GAME_HEIGHT - 200, 20, 200, FALSE)

\* createEntities(): the entities it assigns, given the play mode
CreateEntities(mode) ==
    [player1 |-> SpawnPlayer1, player2 |-> SpawnPlayer2, ball |-> SpawnBall,
     aiController |-> IF mode = ONE_PLAYER THEN NewAIController ELSE NoController]

\* the record of all the program's globals that the handlers below transform
Globals == [currentGameState |-> currentGameState, currentPlayMode |-> currentPlayMode,
            scorePlayer1 |-> scorePlayer1, scorePlayer2 |-> scorePlayer2,
            player1 |-> player1, player2 |-> player2, ball |-> ball,
            keys |-> keys, aiController |-> aiController]

WithEntities(g, e) == [g EXCEPT !.player1 = e.player1, !.player2 = e.player2,
                                !.ball = e.ball, !.aiController = e.aiController]

\* resetGame() without its createEntities() call
ResetGameKeepsEntities(g) ==
    [g EXCEPT !.scorePlayer1 = 0, !.scorePlayer2 = 0, !.currentGameState = MENU]

\* resetGame()
ResetGame(g) ==
    [WithEntities([g EXCEPT !.scorePlayer1 = 0, !.scorePlayer2 = 0],
                  CreateEntities(g.currentPlayMode))
     EXCEPT !.currentGameState = MENU]

\* handleMenuInput()
HandleMenuInput(g) ==
    IF g.currentGameState = MENU THEN [g EXCEPT !.currentGameState = PLAYING]
    ELSE IF g.currentGameState = GAMEOVER
         THEN [ResetGame(g) EXCEPT !.currentGameState = PLAYING]
         ELSE g

\* handleInput(): player1 and player2 afterwards
HandleInputPlayer1(g) ==
    LET a == IF g.keys["p1_left"] THEN MoveLeft(g.player1) ELSE g.player1
        b == IF g.keys["p1_right"] THEN MoveRight(a) ELSE a
    IN  IF g.keys["p1_jump"] THEN Jump(b) ELSE b

HandleInputPlayer2(g) ==
    IF g.currentPlayMode = TWO_PLAYER
    THEN LET a == IF g.keys["p2_left"] THEN MoveLeft(g.player2) ELSE g.player2
             b == IF g.keys["p2_right"] THEN MoveRight(a) ELSE a
         IN  IF g.keys["p2_jump"] THEN Jump(b) ELSE b
    ELSE g.player2

HandleInput(g) == [g EXCEPT !.player1 = HandleInputPlayer1(g),
                            !.player2 = HandleInputPlayer2(g)]

\* updateGame(), the AI step
AIStep(g, random) ==
    IF g.aiController.present
    THEN LET r == AIUpdate(g.aiController, g.player2, g.ball, random)
         IN  [g EXCEPT !.player2 = r.player, !.aiController = r.ai]
    ELSE g

\* updateGame(), "Apply gravity & update physics"
PhysicsStep(g) == [g EXCEPT !.player1 = Update(ApplyGravity(g.player1)),
                            !.player2 = Update(ApplyGravity(g.player2)),
                            !.ball = Update(ApplyGravity(g.ball))]

\* updateGame(), "Collisions"
CollisionStep(g) ==
    LET c12 == CheckCollision(g.player1, g.player2)
        c1b == CheckCollision(c12[1], g.ball)
        c2b == CheckCollision(c12[2], c1b[2])
    IN  [g EXCEPT !.player1 = c1b[1], !.player2 = c2b[1], !.ball = c2b[2]]

\* the left-goal branch with a respawn that also zeroes the scores
ScorePlayer2RespawnResets(g) ==
    LET n == g.scorePlayer2 + 1
    IN  IF n >= MAX_GOALS
        THEN [g EXCEPT !.scorePlayer2 = n, !.currentGameState = GAMEOVER]
        ELSE WithEntities([g EXCEPT !.scorePlayer1 = 0, !.scorePlayer2 = 0],
                          CreateEntities(g.currentPlayMode))

\* updateGame(), the two branches of "Check goals"
ScorePlayer2(g) ==
    LET n == g.scorePlayer2 + 1
    IN  IF n >= MAX_GOALS
        THEN [g EXCEPT !.scorePlayer2 = n, !.currentGameState = GAMEOVER]
        ELSE WithEntities([g EXCEPT !.scorePlayer2 = n],
                          CreateEntities(g.currentPlayMode))

\* the right-goal branch testing scorePlayer1 > MAX_GOALS
ScorePlayer1Late(g) ==
    LET n == g.scorePlayer1 + 1
    IN  IF n > MAX_GOALS
        THEN [g EXCEPT !.scorePlayer1 = n, !.currentGameState = GAMEOVER]
        ELSE WithEntities([g EXCEPT !.scorePlayer1 = n],
                          CreateEntities(g.currentPlayMode))

ScorePlayer1(g) ==
    LET n == g.scorePlayer1 + 1
    IN  IF n >= MAX_GOALS
        THEN [g EXCEPT !.scorePlayer1 = n, !.currentGameState = GAMEOVER]
        ELSE WithEntities([g EXCEPT !.scorePlayer1 = n],
                          CreateEntities(g.currentPlayMode))

\* "Check goals" with the left-goal branch pasted for the right goal too
GoalStepPasted(g) ==
    IF CheckGoal(LeftGoal, g.ball) THEN ScorePlayer2(g)
    ELSE IF CheckGoal(RightGoal, g.ball) THEN ScorePlayer2(g)
    ELSE g

GoalStep(g) ==
    IF CheckGoal(LeftGoal, g.ball) THEN ScorePlayer2(g)
    ELSE IF CheckGoal(RightGoal, g.ball) THEN ScorePlayer1(g)
    ELSE g

\* the state the goal checks of updateGame() read
BeforeGoalCheck(g, random) == CollisionStep(PhysicsStep(AIStep(HandleInput(g), random)))

\* updateGame() without its test of currentGameState
UpdateGameAlways(g, random) == GoalStep(BeforeGoalCheck(g, random))

\* updateGame()
UpdateGameOf(g, random) ==
    IF g.currentGameState = PLAYING THEN GoalStep(BeforeGoalCheck(g, random))
    ELSE g

\* the keydown listener of section 4 with the break after case "ArrowUp" missing
KeyDownFallsThrough(g, key) ==
    IF key = "ArrowUp" THEN HandleMenuInput([g EXCEPT !.keys["p2_jump"] = TRUE])
    ELSE IF ControlOf(key) # "none" THEN [g EXCEPT !.keys[ControlOf(key)] = TRUE]
    ELSE IF key = "Enter" THEN HandleMenuInput(g)
    ELSE g

\* the keydown listener of section 4
KeyDownControls(g, key) ==
    IF ControlOf(key) # "none" THEN [g EXCEPT !.keys[ControlOf(key)] = TRUE]
    ELSE IF key = "Enter" THEN HandleMenuInput(g)
    ELSE g

\* the 1P / 2P toggle without its test of currentGameState
KeyDownToggleAlways(g, key) ==
    LET mode == IF key = "1" THEN ONE_PLAYER
                ELSE IF key = "2" THEN TWO_PLAYER
                ELSE g.currentPlayMode
    IN  WithEntities([g EXCEPT !.currentPlayMode = mode], CreateEntities(mode))

\* the keydown listener of section 8 (1P / 2P toggle), which runs second
KeyDownToggle(g, key) ==
    IF g.currentGameState = MENU
    THEN LET mode == IF key = "1" THEN ONE_PLAYER
                     ELSE IF key = "2" THEN TWO_PLAYER
                     ELSE g.currentPlayMode
         IN  WithEntities([g EXCEPT !.currentPlayMode = mode], CreateEntities(mode))
    ELSE g

\* a keydown event: both listeners, in the order they were added
KeyDownOf(g, key) == KeyDownToggle(KeyDownControls(g, key), key)

\* the keyup listener
KeyUpOf(g, key) ==
    IF ControlOf(key) # "none" THEN [g EXCEPT !.keys[ControlOf(key)] = FALSE] ELSE g

\* the touchstart / touchend listeners bindTouchButton adds to a control button
TouchButtonOf(g, control, down) == [g EXCEPT !.keys[control] = down]

(***************************************************************************)
(* 6) The events: one action per handler, and the tick                     *)
(***************************************************************************)
Install(g) ==
    /\ currentGameState' = g.currentGameState
    /\ currentPlayMode' = g.currentPlayMode
    /\ scorePlayer1' = g.scorePlayer1
    /\ scorePlayer2' = g.scorePlayer2
    /\ player1' = g.player1
    /\ player2' = g.player2
    /\ ball' = g.ball
    /\ keys' = g.keys
    /\ aiController' = g.aiController

\* what an event records: the handler that ran ("keydown": the keydown listeners on
\* a key other than Enter, 1 and 2; "toggle": on 1 or 2; "handleMenuInput": Enter or
\* a touch on the canvas), the match state it found, and, for a tick
\* run while PLAYING, what each goal sensor answered for the ball of that tick
Event(op, left, right) ==
    [op |-> op, state |-> currentGameState, left |-> left, right |-> right]

\* whether updateGame() evaluates Math.random() < 0.01 in state g
RandomConsulted(g) ==
    /\ g.currentGameState = PLAYING
    /\ g.aiController.present
    /\ g.aiController.jumpCooldown <= 0
    /\ ~AIWantsJump(AIMove(HandleInput(g).player2, g.ball), g.ball, FALSE)

\* input events are explored outside play and in the first ticks of play
InputsExplored == currentGameState # PLAYING \/ ticks <= InputWindow

\* the bookkeeping of an input event that leaves keys as g has them; the events
\* that call handleMenuInput() are explored in every state
Input(g, menu) ==
    /\ menu \/ InputsExplored
    /\ g.keys # keys => keyChanges < MaxKeyChanges
    /\ keyChanges' = IF g.keys # keys THEN keyChanges + 1 ELSE keyChanges
    /\ UNCHANGED <<ticks, randomJumps>>

\* one call of updateGame() by mainLoop
UpdateGame ==
    \E random \in BOOLEAN :
        LET playing == currentGameState = PLAYING
            seen == BeforeGoalCheck(Globals, random).ball
        IN  /\ playing => ticks < MaxTicks
            /\ random => /\ RandomConsulted(Globals)
                         /\ randomJumps < MaxRandomJumps
            /\ Install(UpdateGameOf(Globals, random))
            /\ ticks' = IF playing THEN ticks + 1 ELSE ticks
            /\ randomJumps' = IF random THEN randomJumps + 1 ELSE randomJumps
            /\ last' = Event("updateGame", playing /\ CheckGoal(LeftGoal, seen),
                             playing /\ CheckGoal(RightGoal, seen))
            /\ UNCHANGED keyChanges

KeyDown ==
    \E key \in KeyNames :
        LET g == KeyDownOf(Globals, key)
        IN  /\ Input(g, key = "Enter")
            /\ Install(g)
            /\ last' = Event(IF key = "Enter" THEN "handleMenuInput"
                             ELSE IF key \in {"1", "2"} THEN "toggle"
                             ELSE "keydown", FALSE, FALSE)

KeyUp ==
    \E key \in KeyNames :
        LET g == KeyUpOf(Globals, key)
        IN  /\ Input(g, FALSE)
            /\ Install(g)
            /\ last' = Event("keyup", FALSE, FALSE)

TouchStart ==
    \E control \in ControlKeys :
        LET g == TouchButtonOf(Globals, control, TRUE)
        IN  /\ Input(g, FALSE)
            /\ Install(g)
            /\ last' = Event("touchstart", FALSE, FALSE)

TouchEnd ==
    \E control \in ControlKeys :
        LET g == TouchButtonOf(Globals, control, FALSE)
        IN  /\ Input(g, FALSE)
            /\ Install(g)
            /\ last' = Event("touchend", FALSE, FALSE)

\* touchstart on the canvas
CanvasTouchStart ==
    LET g == HandleMenuInput(Globals)
    IN  /\ Input(g, TRUE)
        /\ Install(g)
        /\ last' = Event("handleMenuInput", FALSE, FALSE)

\* the state after the script has run: section 1's initialisers, then section 8's
\* createEntities()
Init ==
    /\ currentGameState = MENU
    /\ currentPlayMode = ONE_PLAYER
    /\ scorePlayer1 = 0
    /\ scorePlayer2 = 0
    /\ player1 = CreateEntities(ONE_PLAYER).player1
    /\ player2 = CreateEntities(ONE_PLAYER).player2
    /\ ball = CreateEntities(ONE_PLAYER).ball
    /\ aiController = CreateEntities(ONE_PLAYER).aiController
    /\ keys = NoKeys
    /\ ticks = 0
    /\ keyChanges = 0
    /\ randomJumps = 0
    /\ last = [op |-> "load", state |-> MENU, left |-> FALSE, right |-> FALSE]

Next == \/ UpdateGame
        \/ KeyDown
        \/ KeyUp
        \/ TouchStart
        \/ TouchEnd
        \/ CanvasTouchStart

Spec == Init /\ [][Next]_vars

(***************************************************************************)
(* 7) The physics functions on their own: PhysicsBody.update and           *)
(*    PhysicsBody.checkCollision applied to bodies drawn from bounded      *)
(*    sets.  player1 is the body `this`, player2 the body `other`; last    *)
(*    records the call made last and the bodies it was given.              *)
(***************************************************************************)
MaxUpdateSteps == 2
MaxCollideSteps == 2
MaxDropHeight == 40          \* in pixels

\* the variables a specification of this section does not use
Idle ==
    /\ currentGameState = MENU
    /\ currentPlayMode = TWO_PLAYER
    /\ scorePlayer1 = 0
    /\ scorePlayer2 = 0
    /\ ball = SpawnBall
    /\ keys = NoKeys
    /\ aiController = NoController
    /\ keyChanges = 0
    /\ randomJumps = 0

IdleUnchanged == UNCHANGED <<currentGameState, currentPlayMode, scorePlayer1, scorePlayer2,
                             ball, keys, aiController, keyChanges, randomJumps>>

Call(op) == [op |-> op, a |-> player1, b |-> player2]

\* a body of either class with the given position and velocity (in hundredths)
BodyAt(class, x, y, vx, vy, onGround) ==
    [(IF class = "Player" THEN NewPlayer(0, 0, PlayerRadius) ELSE NewBall(0, 0, BallRadius))
     EXCEPT !.x = x, !.y = y, !.vx = vx, !.vy = vy, !.isOnGround = onGround]

Classes == {"Player", "Ball"}

\* ---- PhysicsBody.update (and applyGravity), on any body ----
UpdateXs == {-20000, 0, 4999, 5000, 64000, W - 3000, W - 2999, W + 15000}
UpdateYs == {-10000, 36000, H - 5000, H - 4999, H - 3000, H + 8000}
UpdateVxs == {-300000, -500, 0, 37, 150000}
UpdateVys == {-1200, -35, 0, 111, 113, 2000}

InitUpdate ==
    /\ Idle
    /\ \E class \in Classes, x \in UpdateXs, y \in UpdateYs, vx \in UpdateVxs,
          vy \in UpdateVys, onGround \in BOOLEAN :
            player1 = BodyAt(class, x, y, vx, vy, onGround)
    /\ player2 = SpawnPlayer2
    /\ ticks = 0
    /\ last = [op |-> "new", a |-> player1, b |-> player2]

UpdateBody ==
    /\ ticks < MaxUpdateSteps
    /\ player1' = Update(player1)
    /\ ticks' = ticks + 1
    /\ last' = Call("update")
    /\ UNCHANGED player2
    /\ IdleUnchanged

ApplyGravityBody ==
    /\ ticks < MaxUpdateSteps
    /\ last.op # "applyGravity"
    /\ player1' = ApplyGravity(player1)
    /\ last' = Call("applyGravity")
    /\ UNCHANGED <<player2, ticks>>
    /\ IdleUnchanged

NextUpdate == UpdateBody \/ ApplyGravityBody

SpecUpdate == InitUpdate /\ [][NextUpdate]_vars

\* ---- PhysicsBody.checkCollision, on any pair ----
CollideVs == {-400, 0, 400}
CollideDxs == {-10000, -6000, -3000, 0, 3000, 6000, 7999, 8000, 10000, 12000}
CollideDys == {-8000, 0, 4000, 8000}

InitCollide ==
    /\ Idle
    /\ \E avx \in CollideVs, avy \in CollideVs :
            player1 = BodyAt("Player", 64000, 40000, avx, avy, FALSE)
    /\ \E class \in Classes, dx \in CollideDxs, dy \in CollideDys,
          bvx \in CollideVs, bvy \in CollideVs :
            player2 = BodyAt(class, 64000 + dx, 40000 + dy, bvx, bvy, FALSE)
    /\ ticks = 0
    /\ last = [op |-> "new", a |-> player1, b |-> player2]

Collide ==
    /\ ticks < MaxCollideSteps
    /\ player1' = CheckCollision(player1, player2)[1]
    /\ player2' = CheckCollision(player1, player2)[2]
    /\ ticks' = ticks + 1
    /\ last' = Call("checkCollision")
    /\ IdleUnchanged

NextCollide == Collide

SpecCollide == InitCollide /\ [][NextCollide]_vars

\* ---- one body dropped from rest: applyGravity then update, every tick ----
SettleBound == 10 + 8 * MaxDropHeight

InitDrop ==
    /\ Idle
    /\ \E class \in Classes, h \in 0 .. MaxDropHeight :
            player1 = BodyAt(class, W \div 2,
                             H - h * Unit - (IF class = "Player" THEN PlayerRadius
                                             ELSE BallRadius) * Unit,
                             0, 0, FALSE)
    /\ player2 = SpawnPlayer2
    /\ ticks = 0
    /\ last = [op |-> "new", a |-> player1, b |-> player2]

DropTick ==
    /\ ticks < SettleBound
    /\ player1' = Update(ApplyGravity(player1))
    /\ ticks' = ticks + 1
    /\ last' = Call("tick")
    /\ UNCHANGED player2
    /\ IdleUnchanged

NextDrop == DropTick

\* the tick source (requestAnimationFrame) keeps calling
SpecDrop == InitDrop /\ [][NextDrop]_vars /\ WF_vars(DropTick)

\* ---- Goal.checkGoal, on any goal and any ball ----
\* the goals createEntities() makes, and a goal of either side away from the walls
Goals == {LeftGoal, RightGoal, NewGoal(300, 100, 50, 80, TRUE),
          NewGoal(300, 100, 50, 80, FALSE)}
GoalBallRadii == {1, BallRadius}
\* how far the ball's centre is outside the goal's inner edge, in hundredths
\* (negative: inside the goal or beyond it)
GoalDxs(r) == {-200000, -10, r - 1, r, r + 1, r + 100}
\* the ball's centre relative to the goal's top, in hundredths
GoalYs(g, r) == {g.y - r - 1, g.y - r, g.y - r + 1, g.y + (g.height \div 2),
                 g.y + g.height + r - 1, g.y + g.height + r, g.y + g.height + r + 1}

InnerEdge(g) == IF g.isLeftGoal THEN g.x + g.width ELSE g.x

InitGoal ==
    /\ currentGameState = MENU
    /\ currentPlayMode = TWO_PLAYER
    /\ scorePlayer1 = 0
    /\ scorePlayer2 = 0
    /\ player1 = SpawnPlayer1
    /\ player2 = SpawnPlayer2
    /\ keys = NoKeys
    /\ aiController = NoController
    /\ keyChanges = 0
    /\ randomJumps = 0
    /\ ticks = 0
    /\ \E g \in Goals, radius \in GoalBallRadii :
         \E d \in GoalDxs(radius * Unit), y \in GoalYs(g, radius * Unit) :
            /\ ball = [NewBall(0, 0, radius)
                       EXCEPT !.x = IF g.isLeftGoal THEN InnerEdge(g) + d
                                    ELSE InnerEdge(g) - d,
                              !.y = y]
            /\ last = [op |-> "new", goal |-> g, result |-> FALSE]

\* goal.checkGoal(ball), for the goal the initial state chose
CheckGoalCall ==
    /\ last.op = "new"
    /\ last' = [op |-> "checkGoal", goal |-> last.goal,
                result |-> CheckGoal(last.goal, ball)]
    /\ UNCHANGED <<player1, player2, ticks>>
    /\ IdleUnchanged

NextGoal == CheckGoalCall

SpecGoal == InitGoal /\ [][NextGoal]_vars

\* ---- updateGame() statement by statement ----
\* ticks run one after the other (bounded)
MaxStatementTicks == 2

\* updateGame() with player1.checkCollision(ball) moved above the ball's update
UpdateGameBodyCollidesEarly ==
    << "handleInput", "aiController.update",
       "player1.applyGravity", "player1.update",
       "player2.applyGravity", "player2.update",
       "player1.checkCollision(ball)",
       "ball.applyGravity", "ball.update",
       "player1.checkCollision(player2)", "player2.checkCollision(ball)",
       "checkGoals" >>

\* the statements of updateGame()'s PLAYING branch, in the order of the source
\* ("aiController.update" is the statement `if (aiController) aiController.update()`,
\* "checkGoals" the if / else if on leftGoal.checkGoal and rightGoal.checkGoal)
UpdateGameBody ==
    << "handleInput", "aiController.update",
       "player1.applyGravity", "player1.update",
       "player2.applyGravity", "player2.update",
       "ball.applyGravity", "ball.update",
       "player1.checkCollision(player2)", "player1.checkCollision(ball)",
       "player2.checkCollision(ball)",
       "checkGoals" >>

\* the globals after one statement of updateGame() has run on g
Statement(stmt, g, random) ==
    CASE stmt = "handleInput" -> HandleInput(g)
      [] stmt = "aiController.update" -> AIStep(g, random)
      [] stmt = "player1.applyGravity" -> [g EXCEPT !.player1 = ApplyGravity(g.player1)]
      [] stmt = "player1.update" -> [g EXCEPT !.player1 = Update(g.player1)]
      [] stmt = "player2.applyGravity" -> [g EXCEPT !.player2 = ApplyGravity(g.player2)]
      [] stmt = "player2.update" -> [g EXCEPT !.player2 = Update(g.player2)]
      [] stmt = "ball.applyGravity" -> [g EXCEPT !.ball = ApplyGravity(g.ball)]
      [] stmt = "ball.update" -> [g EXCEPT !.ball = Update(g.ball)]
      [] stmt = "player1.checkCollision(player2)" ->
            [g EXCEPT !.player1 = CheckCollision(g.player1, g.player2)[1],
                      !.player2 = CheckCollision(g.player1, g.player2)[2]]
      [] stmt = "player1.checkCollision(ball)" ->
            [g EXCEPT !.player1 = CheckCollision(g.player1, g.ball)[1],
                      !.ball = CheckCollision(g.player1, g.ball)[2]]
      [] stmt = "player2.checkCollision(ball)" ->
            [g EXCEPT !.player2 = CheckCollision(g.player2, g.ball)[1],
                      !.ball = CheckCollision(g.player2, g.ball)[2]]
      [] stmt = "checkGoals" -> GoalStep(g)

\* a body of play: standing on the floor or in the air, in pixels and hundredths
InPlay(spawn, x, y, vy, onGround) ==
    [spawn EXCEPT !.x = x * Unit, !.y = y * Unit, !.vy = vy, !.isOnGround = onGround]

TickKeys == {NoKeys, [NoKeys EXCEPT !["p1_right"] = TRUE],
             [NoKeys EXCEPT !["p1_right"] = TRUE, !["p1_jump"] = TRUE],
             [NoKeys EXCEPT !["p2_left"] = TRUE, !["p2_jump"] = TRUE]}
TickPlayer2Xs == {702, 960}
TickBalls == {InPlay(SpawnBall, 650, 600, 500, FALSE),
              InPlay(SpawnBall, 676, 600, 500, FALSE),
              InPlay(SpawnBall, 640, 360, 0, FALSE),
              InPlay(SpawnBall, 1240, 600, 0, FALSE)}

\* a moment of play between two ticks; last records the statement run last, the
\* position in updateGame() (0 between ticks), the statements run so far in this
\* tick, the globals the tick started from, the outcome of Math.random() < 0.01
\* should the tick consult it, and the ball the goal checks read
InitTick ==
    /\ currentGameState = PLAYING
    /\ currentPlayMode \in PLAY_MODE
    /\ scorePlayer1 = 0
    /\ scorePlayer2 = 0
    /\ player1 = InPlay(SpawnPlayer1, 600, GAME_HEIGHT - PlayerRadius, 0, TRUE)
    /\ \E x \in TickPlayer2Xs :
            player2 = InPlay(SpawnPlayer2, x, GAME_HEIGHT - PlayerRadius, 0, TRUE)
    /\ ball \in TickBalls
    /\ keys \in TickKeys
    /\ aiController = CreateEntities(currentPlayMode).aiController
    /\ ticks = 0
    /\ keyChanges = 0
    /\ randomJumps = 0
    /\ last = [op |-> "new", pc |-> 0, log |-> << >>, start |-> Globals,
               random |-> FALSE, seen |-> ball]

\* mainLoop calls updateGame() while PLAYING
StartTick ==
    /\ last.pc = 0
    /\ currentGameState = PLAYING
    /\ ticks < MaxStatementTicks
    /\ \E random \in BOOLEAN :
        /\ random => RandomConsulted(Globals)
        /\ last' = [op |-> "updateGame", pc |-> 1, log |-> << >>, start |-> Globals,
                    random |-> random, seen |-> ball]
    /\ ticks' = ticks + 1
    /\ UNCHANGED <<currentGameState, currentPlayMode, scorePlayer1, scorePlayer2,
                   player1, player2, ball, keys, aiController, keyChanges, randomJumps>>

\* the next statement of updateGame() runs
RunStatement ==
    /\ last.pc \in 1 .. Len(UpdateGameBody)
    /\ LET stmt == UpdateGameBody[last.pc]
       IN  /\ Install(Statement(stmt, Globals, last.random))
           /\ last' = [last EXCEPT !.op = stmt,
                                   !.pc = IF last.pc = Len(UpdateGameBody) THEN 0
                                          ELSE last.pc + 1,
                                   !.log = Append(last.log, stmt),
                                   !.seen = IF stmt = "checkGoals" THEN ball
                                            ELSE last.seen]
    /\ UNCHANGED <<ticks, keyChanges, randomJumps>>

NextTick == StartTick \/ RunStatement

SpecTick == InitTick /\ [][NextTick]_vars

(***************************************************************************)
(* 8) Properties of the state machine (specification Spec)                 *)
(***************************************************************************)
AtSpawn(b, spawn) == b.x = spawn.x /\ b.y = spawn.y /\ b.vx = 0 /\ b.vy = 0

AllAtSpawn(p1, p2, b) ==
    AtSpawn(p1, SpawnPlayer1) /\ AtSpawn(p2, SpawnPlayer2) /\ AtSpawn(b, SpawnBall)

\* C1: between events, the match state is GAMEOVER exactly when scorePlayer1 or
\* scorePlayer2 has reached MAX_GOALS; so the state becomes GAMEOVER in the tick
\* that credits the third goal and in no earlier tick.
C1_GameOverIffMaxGoals ==
    (currentGameState = GAMEOVER)
        <=> (scorePlayer1 >= MAX_GOALS \/ scorePlayer2 >= MAX_GOALS)

\* a tick run while PLAYING has just credited the third goal
C1_ThirdGoalTick ==
    /\ last.op = "updateGame" /\ last.state = PLAYING /\ last.right
    /\ scorePlayer1 = MAX_GOALS
    /\ currentGameState = GAMEOVER

\* C2: no step decreases scorePlayer1 or scorePlayer2, except the handling of the
\* menu signal in state GAMEOVER, which sets both to 0; the start signal from MENU
\* and a tick (the per-goal respawn included) never lower or reset a score.
C2_ScoresNeverDecrease ==
    [][ /\ (scorePlayer1' < scorePlayer1 \/ scorePlayer2' < scorePlayer2)
            => /\ last'.op = "handleMenuInput"
               /\ currentGameState = GAMEOVER
               /\ scorePlayer1' = 0 /\ scorePlayer2' = 0
        /\ (last'.op = "handleMenuInput" /\ currentGameState = MENU) => UNCHANGED score
        /\ (last'.op = "updateGame" /\ currentGameState' = PLAYING
              /\ (last'.left \/ last'.right))
            => /\ scorePlayer1' + scorePlayer2' = scorePlayer1 + scorePlayer2 + 1
               /\ AllAtSpawn(player1', player2', ball')
      ]_vars

\* the menu signal has just reset the scores of a finished match
C2_RestartResetScores ==
    /\ last.op = "handleMenuInput" /\ last.state = GAMEOVER
    /\ scorePlayer1 = 0 /\ scorePlayer2 = 0

\* C3: when handleMenuInput is handled in state GAMEOVER, then on return both
\* scores are 0, the state is PLAYING and player1, player2 and ball are at their
\* spawn positions with zero velocity.
C3_RestartFromGameOver ==
    (last.op = "handleMenuInput" /\ last.state = GAMEOVER)
        => /\ scorePlayer1 = 0 /\ scorePlayer2 = 0
           /\ currentGameState = PLAYING
           /\ AllAtSpawn(player1, player2, ball)

\* handleMenuInput has just been handled in state GAMEOVER
C3_RestartHandled ==
    /\ last.op = "handleMenuInput" /\ last.state = GAMEOVER
    /\ ticks >= MAX_GOALS

\* C4: the menu signal handled while PLAYING, and a tick run while MENU or
\* GAMEOVER, leave the match state, both scores and every body (position,
\* velocity, grounded flag) unchanged.
C4_InvalidEventsAreNoOps ==
    [][ (\/ last'.op = "handleMenuInput" /\ currentGameState = PLAYING
         \/ last'.op = "updateGame" /\ currentGameState # PLAYING)
            => UNCHANGED game ]_vars

\* the menu signal has just been handled in mid-match, the ball in flight
C4_MenuSignalWhilePlaying ==
    /\ last.op = "handleMenuInput" /\ last.state = PLAYING
    /\ scorePlayer2 = 1
    /\ ~AtSpawn(ball, SpawnBall)

\* C5: in a tick run while PLAYING, a detection by the left sensor adds exactly 1
\* to scorePlayer2 and a detection by the right sensor exactly 1 to scorePlayer1,
\* the other score unchanged; if the new score is below MAX_GOALS the three bodies
\* are replaced by bodies at spawn with zero velocity and the state stays PLAYING;
\* with no detection the scores and the state are unchanged.
C5_GoalCreditsOneScore ==
    [][ (last'.op = "updateGame" /\ currentGameState = PLAYING)
            => /\ last'.left => /\ scorePlayer2' = scorePlayer2 + 1
                                /\ scorePlayer1' = scorePlayer1
                                /\ scorePlayer2' < MAX_GOALS
                                     => /\ AllAtSpawn(player1', player2', ball')
                                        /\ currentGameState' = PLAYING
               /\ last'.right => /\ scorePlayer1' = scorePlayer1 + 1
                                 /\ scorePlayer2' = scorePlayer2
                                 /\ scorePlayer1' < MAX_GOALS
                                      => /\ AllAtSpawn(player1', player2', ball')
                                         /\ currentGameState' = PLAYING
               /\ ~(last'.left \/ last'.right) => UNCHANGED <<score, currentGameState>>
      ]_vars

\* a tick has just credited player 2 with a goal that does not end the match
C5_LeftGoalRespawn ==
    /\ last.op = "updateGame" /\ last.state = PLAYING /\ last.left
    /\ scorePlayer2 = 1 /\ scorePlayer1 = 0
    /\ currentGameState = PLAYING
    /\ AllAtSpawn(player1, player2, ball)

\* C6 as stated: positions, velocities, scores and the match state are changed
\* only by updateGame; no input handler (handleMenuInput included) changes any of
\* them.
C6_OnlyTickChangesGame ==
    [][ last'.op # "updateGame" => UNCHANGED game ]_vars

\* C6 as amended: positions, velocities, scores and the match state are changed
\* only by updateGame and by handleMenuInput; the keydown / keyup listeners on the
\* control keys and the touch-button listeners write only keys, and the 1 / 2
\* toggle changes none of positions, velocities, scores, match state and keys.
C6_OnlyTickAndMenuChangeGame ==
    [][ /\ game' # game => last'.op \in {"updateGame", "handleMenuInput"}
        /\ last'.op \in {"keydown", "keyup", "touchstart", "touchend"}
            => UNCHANGED <<game, currentPlayMode, aiController>>
        /\ last'.op = "toggle" => UNCHANGED <<game, keys>>
      ]_vars

\* a control key has just been pressed during play, and keys has changed
C6_KeyPressedWhilePlaying ==
    /\ last.op = "keydown" /\ last.state = PLAYING
    /\ keys["p1_right"]
    /\ keyChanges > 0

(***************************************************************************)
(* 9) Properties of the physics functions                                  *)
(***************************************************************************)
FLe(a, b) == a # NaN /\ b # NaN /\ a <= b

Contained(b) ==
    /\ FLe(FAdd(b.y, b.radius), H)
    /\ FLe(0, FSub(b.x, b.radius))
    /\ FLe(FAdd(b.x, b.radius), W)

\* C7: immediately after PhysicsBody.update, whatever the (finite) position and
\* velocity it was given, position.y + radius <= GAME_HEIGHT,
\* position.x - radius >= 0 and position.x + radius <= GAME_WIDTH.
C7_UpdateContains == last.op = "update" => Contained(player1)

\* update has just brought back a body that was beyond a wall and below the floor
C7_UpdateBroughtBack ==
    /\ last.op = "update"
    /\ last.a.x + last.a.vx + last.a.radius > W
    /\ last.a.y + last.a.vy + last.a.radius > H
    /\ player1.x = W - player1.radius
    /\ player1.y = H - player1.radius

\* the pair a, b by exact integer geometry: squared centre distance, and the sign
\* of the relative velocity along the line of centres
DistSq(a, b) == (b.x - a.x) * (b.x - a.x) + (b.y - a.y) * (b.y - a.y)
MinDistSq(a, b) == (a.radius + b.radius) * (a.radius + b.radius)
SeparatingPair(a, b) ==
    /\ DistSq(a, b) > 0
    /\ (b.vx - a.vx) * (b.x - a.x) + (b.vy - a.vy) * (b.y - a.y) > 0
SameVelocity(b, c) == b.vx = c.vx /\ b.vy = c.vy

\* C8: checkCollision(a, b) leaves both velocities unchanged whenever the relative
\* velocity along the collision normal is > 0, and leaves both bodies unchanged
\* whenever the centre distance is >= a.radius + b.radius.
C8_SeparatingOrApartUnchanged ==
    last.op = "checkCollision"
        => /\ SeparatingPair(last.a, last.b)
                => SameVelocity(player1, last.a) /\ SameVelocity(player2, last.b)
           /\ DistSq(last.a, last.b) >= MinDistSq(last.a, last.b)
                => player1 = last.a /\ player2 = last.b

\* checkCollision has just pushed apart an overlapping, separating pair
C8_SeparatingPairPushedApart ==
    /\ last.op = "checkCollision"
    /\ DistSq(last.a, last.b) < MinDistSq(last.a, last.b)
    /\ SeparatingPair(last.a, last.b)
    /\ player1.x # last.a.x
    /\ SameVelocity(player1, last.a) /\ SameVelocity(player2, last.b)

Rest(b) == b.vy = 0 /\ b.isOnGround /\ b.y = H - b.radius

\* C9: a body with zero horizontal velocity released at rest above the floor and
\* stepped by applyGravity then update has, by its SettleBound-th tick, reached a
\* state with velocity.y = 0 and isOnGround, and once it is in such a state every
\* tick ends with velocity.y = 0, isOnGround and position.y = GAME_HEIGHT - radius.
C9_DroppedBodySettles ==
    /\ [](ticks >= SettleBound => Rest(player1))
    /\ [][(player1.vy = 0 /\ player1.isOnGround) => Rest(player1')]_vars

\* a dropped body has just come to rest after bouncing
C9_CameToRest ==
    /\ last.op = "tick"
    /\ ticks > 100
    /\ Rest(player1)
    /\ ~last.a.isOnGround

Finite(b) == b.x # NaN /\ b.y # NaN /\ b.vx # NaN /\ b.vy # NaN

\* C10: checkCollision(a, b) on two bodies whose centres coincide leaves every
\* position and velocity component of both bodies a finite number.
C10_CoincidentCentresStayFinite ==
    (last.op = "checkCollision" /\ DistSq(last.a, last.b) = 0)
        => Finite(player1) /\ Finite(player2)

(***************************************************************************)
(* 10) Properties of Goal.checkGoal (specification SpecGoal)               *)
(***************************************************************************)
\* the ball's vertical extent overlaps the goal's, in exact integer arithmetic
VerticalOverlap(g, b) == b.y + b.radius > g.y /\ b.y - b.radius < g.y + g.height

\* C11: checkGoal answers true for a left goal exactly when the ball's left side
\* is left of the goal's right edge and the vertical extents overlap, and for a
\* right goal exactly when the ball's right side is right of the goal's left edge
\* with the same vertical condition; a partial horizontal overlap suffices and
\* there is no bound on the other side: a ball of radius 1 centred 0.1 inside the
\* left goal's right edge (or anywhere further left) is detected, and one centred
\* radius + 1 outside it is not.
C11_CheckGoalExactly ==
    last.op = "checkGoal" =>
        LET g == last.goal
        IN  /\ g.isLeftGoal =>
                (last.result <=> (ball.x - ball.radius < g.x + g.width
                                  /\ VerticalOverlap(g, ball)))
            /\ ~g.isLeftGoal =>
                (last.result <=> (ball.x + ball.radius > g.x
                                  /\ VerticalOverlap(g, ball)))
            /\ (g.isLeftGoal /\ ball.radius = Unit /\ VerticalOverlap(g, ball)) =>
                /\ ball.x <= g.x + g.width - 10 => last.result
                /\ ball.x = g.x + g.width + ball.radius + Unit => ~last.result

\* the left goal detected a ball of radius 1 centred 0.1 inside its right edge
C11_PartialOverlapDetected ==
    /\ last.op = "checkGoal"
    /\ last.goal.isLeftGoal
    /\ ball.radius = Unit
    /\ ball.x = last.goal.x + last.goal.width - 10
    /\ ball.x + ball.radius > last.goal.x + last.goal.width
    /\ VerticalOverlap(last.goal, ball)
    /\ last.result

(***************************************************************************)
(* 11) Properties of the order inside a tick (specification SpecTick)      *)
(***************************************************************************)
Updates == {"player1.applyGravity", "player1.update", "player2.applyGravity",
            "player2.update", "ball.applyGravity", "ball.update"}
Resolutions == {"player1.checkCollision(player2)", "player1.checkCollision(ball)",
                "player2.checkCollision(ball)"}
InputSteps == {"handleInput", "aiController.update"}

\* the statements run before the i-th of this tick
RunBefore(i) == {last.log[j] : j \in 1 .. (i - 1)}
TimesRun(stmt) == Cardinality({i \in 1 .. Len(last.log) : last.log[i] = stmt})
TickDone == last.op = "checkGoals" /\ last.pc = 0

\* C12: in every tick run while PLAYING, input application and the AI come first,
\* then applyGravity and update of all three bodies, then collision resolution,
\* then the goal checks: no checkCollision runs before all three bodies are
\* updated, each of the three pairs is resolved exactly once, and the goal checks
\* read the ball as the three resolutions left it (the tick as a whole being the
\* composition of the four steps in that order).
C12_TickOrder ==
    /\ \A i \in 1 .. Len(last.log) :
        /\ last.log[i] \in Updates => InputSteps \subseteq RunBefore(i)
        /\ last.log[i] \in Resolutions => Updates \subseteq RunBefore(i)
        /\ last.log[i] = "checkGoals" => Resolutions \subseteq RunBefore(i)
    /\ \A r \in Resolutions : TimesRun(r) <= 1
    /\ last.op = "player2.checkCollision(ball)" =>
            ball = BeforeGoalCheck(last.start, last.random).ball
    /\ TickDone =>
        /\ \A r \in Resolutions : TimesRun(r) = 1
        /\ \A u \in Updates \cup InputSteps : TimesRun(u) = 1
        /\ last.seen = BeforeGoalCheck(last.start, last.random).ball
        /\ Globals = UpdateGameOf(last.start, last.random)

\* a tick ended whose goal checks read a ball the collisions had moved
C12_GoalChecksAfterCollisions ==
    /\ TickDone
    /\ last.seen # PhysicsStep(AIStep(HandleInput(last.start), last.random)).ball
    /\ last.seen = CollisionStep(PhysicsStep(AIStep(HandleInput(last.start),
                                                    last.random))).ball

(***************************************************************************)
(* 12) Properties of the grounded flag and of containment during play      *)
(*     (specification Spec)                                                *)
(***************************************************************************)
\* update() of the body pre hits the floor / rebounds below the resting threshold
FloorHit(pre) == pre.y + pre.vy + pre.radius > H
SmallRebound(pre) == Abs(RDiv(pre.vy * pre.restitution, 100)) < RestThreshold

\* isOnGround after update() of pre is derived from this update alone
GroundedDerived(pre) ==
    LET post == Update(pre)
    IN  IF FloorHit(pre) /\ SmallRebound(pre)
        THEN post.isOnGround /\ post.vy = 0 /\ post.y = H - post.radius
        ELSE ~post.isOnGround

\* the next tick's jump() of player1 / player2 takes effect (the AI's may whenever
\* its cooldown has run out: Math.random() < 0.01 can hold in any call)
Player1JumpTakesEffect == keys["p1_jump"] /\ player1.isOnGround
Player2JumpTakesEffect ==
    /\ player2.isOnGround
    /\ IF currentPlayMode = TWO_PLAYER THEN keys["p2_jump"]
       ELSE aiController.present /\ aiController.jumpCooldown <= 0

\* C13: the grounded flag is derived from floor rest on every update: after
\* update, isOnGround is true exactly when this update hit the floor with a
\* rebound speed below the resting threshold (velocity.y 0, position.y =
\* GAME_HEIGHT - radius) and false otherwise, also after a floor hit with a
\* rebound at or above the threshold; so whenever jump takes effect the player
\* rests on the floor with velocity.y = 0.
C13_GroundedIffFloorRest ==
    currentGameState = PLAYING =>
        /\ GroundedDerived(ApplyGravity(HandleInput(Globals).player1))
        /\ \A random \in BOOLEAN :
              (random => RandomConsulted(Globals)) =>
                GroundedDerived(ApplyGravity(AIStep(HandleInput(Globals), random).player2))
        /\ GroundedDerived(ApplyGravity(ball))
        /\ Player1JumpTakesEffect =>
              player1.vy = 0 /\ player1.y = H - player1.radius
        /\ Player2JumpTakesEffect =>
              player2.vy = 0 /\ player2.y = H - player2.radius

\* C14 as claimed: at the end of every tick run while PLAYING, after the three
\* checkCollision calls and their positional corrections, every body has
\* position.y + radius <= GAME_HEIGHT, position.x - radius >= 0 and
\* position.x + radius <= GAME_WIDTH.
C14_ContainedAtTickEnd ==
    (last.op = "updateGame" /\ last.state = PLAYING) =>
        Contained(player1) /\ Contained(player2) /\ Contained(ball)

\* C14, amended: in every tick run while PLAYING every body is inside the floor
\* and the two walls once applyGravity and update have run on all three, before
\* the checkCollision calls, whatever the previous tick's corrections left.
C14_ContainedAfterUpdate ==
    currentGameState = PLAYING =>
        \A random \in BOOLEAN :
            (random => RandomConsulted(Globals)) =>
                LET g == PhysicsStep(AIStep(HandleInput(Globals), random))
                IN  Contained(g.player1) /\ Contained(g.player2) /\ Contained(g.ball)

\* a tick ended with a body pushed through the floor or a wall by checkCollision,
\* and the next tick's update brings it back inside
C14_PushedOutThenBroughtBack ==
    /\ last.op = "updateGame"
    /\ last.state = PLAYING
    /\ currentGameState = PLAYING
    /\ ~Contained(player2)
    /\ Contained(PhysicsStep(AIStep(HandleInput(Globals), FALSE)).player2)

(***************************************************************************)
(* 13) Properties of the match state and the play mode (specification Spec)*)
(***************************************************************************)
\* C15: the initial state is MENU, and once the state has left MENU no event
\* leaves it MENU again (a restart ends in PLAYING) and, the 1 / 2 keydown handler
\* acting only in MENU, no event changes the play mode or whether there is an AI
\* controller, across goals and restarts.
C15_MenuOnlyBeforeFirstStart ==
    /\ currentGameState = MENU
    /\ [][currentGameState # MENU =>
            /\ currentGameState' # MENU
            /\ currentPlayMode' = currentPlayMode
            /\ aiController'.present = aiController.present]_vars

\* the 2 key was pressed on the game-over screen of a 1-player match
C15_TogglePressedAfterMatch ==
    /\ last.op = "toggle"
    /\ last.state = GAMEOVER
    /\ currentGameState = GAMEOVER
    /\ currentPlayMode = ONE_PLAYER
    /\ aiController.present

===========================================================================
